---- MODULE Spec2Model ----
(***************************************************************************)
(* A model of src/utils.py: the streaming voice-activity detector          *)
(* (VADiterator), the multiplexed scheduler (stream_imitator driven by     *)
(* state_generator), the one-signal stream (single_audio_stream), the      *)
(* whole-signal detectors (get_speech_ts, get_number_ts) and the chunk     *)
(* helpers (collect_chunks, drop_chunks).                                  *)
(*                                                                         *)
(* Samples are modelled by their identity <<name, index>>; ZeroSample is   *)
(* a zero sample (padding, filler, the initial prev).  Probabilities and   *)
(* thresholds are integers in hundredths (0.26 is 26), so the comparison   *)
(* sum(buffer) / len(buffer) >= trig_sum is Sum(buffer) >= trig_sum * len. *)
(***************************************************************************)
EXTENDS Integers, Sequences, FiniteSets, Bags, TLC

VARIABLES
  mode,              \* the entry point that runs: "stream" (state_generator),
                     \* "imitator" (stream_imitator under a plain for loop),
                     \* "single" (single_audio_stream), "batch" (get_speech_ts),
                     \* "number" (get_number_ts), "chunks" (collect_chunks, then
                     \* drop_chunks)
  model,             \* the classifier: any answer, or the same probability for every row
  num_samples,       \* num_samples_per_window
  num_steps,
  step,
  trig_sum,
  neg_trig_sum,
  \* ---- stream_imitator
  audios,            \* the queue of file names
  wav_len,           \* read_audio: file name -> number of samples
  audios_in_stream,
  audio_pos,         \* audio_iter: how many names it has handed out
  iterators,
  good_iters,
  values,
  imPc,              \* "start", "loop", "suspended", "done", "error"
  \* ---- state_generator
  VADiters,
  for_batch,
  batch,
  outs,
  vad_outs,
  cur,               \* the cur_st of every slot in this round
  states,            \* the states list of this round
  sgPc,              \* "next", "prepare", "run", "yield", "done", "failed", "error"
  \* ---- get_speech_ts
  wav_size,          \* len(wav)
  batch_size,
  chunk_i,           \* how many values of range(0, len(wav), step) the first loop has had
  to_concat,         \* the chunks not yet sent, each by its offset and unpadded length
  speech_probs,      \* outs[:, 1], the rows received so far
  speech_i,          \* how many rows the edge loop has had
  buffer,
  triggered,
  current_speech,
  speeches,
  gsPc,              \* "chunks", "loop", "done", "error"
  \* ---- get_number_ts
  number_wav,        \* the shape of wav
  perframe_preds,
  extended_preds,
  number_i,          \* how many values of extended_preds the loop has had
  number_triggered,
  cur_timing,
  timings,
  gnPc,              \* "run", "loop", "done"
  \* ---- collect_chunks and drop_chunks
  tss,
  chunks_wav,        \* wav, every sample by its index
  collected,         \* what collect_chunks(tss, wav) returned
  dropped,           \* what drop_chunks(tss, wav) returned
  ccPc,              \* "collect", "drop", "done", "error"
  \* ---- observers (history; no effect on the program)
  edges,             \* the edges the loop of get_speech_ts has emitted
  emitted,           \* bag of the windows <<queue index, chunk index>> yielded so far
  round_start,       \* VADiters when the current round began
  fed_rows,          \* per slot, the rows of outs its state() received in this round
  last_edge,         \* per slot, the last edge emitted before this round
  fresh,             \* per slot, whether its current stream began from a reset detector
  last_off,          \* single_audio_stream: the offset of the last edge so far, or -1
  solo,              \* per slot, the detector of single_audio_stream run on the slot's
                     \* signal alone, as it is before the window of this round
  quiet              \* per slot, whether every filler row so far was below trig_sum

vars == <<mode, model, num_samples, num_steps, step, trig_sum, neg_trig_sum,
          audios, wav_len, audios_in_stream, audio_pos, iterators, good_iters,
          values, imPc, VADiters, for_batch, batch, outs, vad_outs, cur, states,
          sgPc, emitted, round_start, fed_rows, last_edge, fresh, last_off, solo, quiet,
          wav_size, batch_size, chunk_i, to_concat, speech_probs, speech_i, buffer,
          triggered, current_speech, speeches, gsPc, edges,
          number_wav, perframe_preds, extended_preds, number_i, number_triggered,
          cur_timing, timings, gnPc, tss, chunks_wav, collected, dropped, ccPc>>

config == <<mode, model, num_samples, num_steps, step, trig_sum, neg_trig_sum,
            audios, wav_len, audios_in_stream>>

imitator == <<audio_pos, iterators, good_iters, values, imPc>>

generator == <<VADiters, for_batch, batch, outs, vad_outs, cur, states, sgPc,
               emitted, round_start, fed_rows, last_edge, fresh, last_off, solo, quiet>>

gst == <<wav_size, batch_size, chunk_i, to_concat, speech_probs, speech_i, buffer,
         triggered, current_speech, speeches, gsPc, edges>>

numbers == <<number_wav, perframe_preds, extended_preds, number_i, number_triggered,
             cur_timing, timings, gnPc>>

chunker == <<tss, chunks_wav, collected, dropped, ccPc>>

----------------------------------------------------------------------------
(* Bounds of the model *)

MaxQueue == 3
MaxLen == 4

MaxHalfSteps == 18

MaxWav == 5          \* the longest wav given to collect_chunks and drop_chunks
MaxSegs == 2         \* the longest list of segments given to them
MaxFrames == 3       \* the most strided frames the number classifier answers for

(* Program constants; the thresholds in hundredths *)
VadTrigSum == 26
VadNegTrigSum == 7
GstTrigSum == 25
GstNegTrigSum == 7
MinSpeechSamples == 10000

Names == {"a", "b"}
StreamCounts == {1, 2}                       \* the audios_in_stream tried
Shapes == {[num_steps |-> 2, step |-> 1]}    \* the window shapes tried
GstShapes == {[num_steps |-> 2, step |-> 5000]}
BatchSizes == {2, 200}
Probs == {5, 30}
LoudProbs == {5, 100}                        \* the answers of a classifier that jumps
None == "<None>"
JunkName == "junk"

----------------------------------------------------------------------------
(* Helpers for Python and torch primitives *)

Min(a, b) == IF a < b THEN a ELSE b
Max(a, b) == IF a > b THEN a ELSE b

\* range(start, stop, stride) for stride > 0, as a sequence
Range(start, stop, stride) ==
  IF stop <= start THEN <<>>
  ELSE [k \in 1..((stop - start + stride - 1) \div stride) |-> start + (k - 1) * stride]

\* s[lo:hi] of Python (0-based, hi exclusive, clipped to the length), 0 <= lo
Slice(s, lo, hi) == SubSeq(s, lo + 1, Min(hi, Len(s)))

\* torch.zeros(n)
ZeroSample == <<"", 0>>
Zeros(n) == [k \in 1..n |-> ZeroSample]

\* F.pad(chunk, (0, n - len(chunk)))
Pad(chunk, n) == chunk \o Zeros(n - Len(chunk))

RECURSIVE Sum(_)
Sum(s) == IF s = <<>> THEN 0 ELSE Head(s) + Sum(Tail(s))

RECURSIVE Cat(_)
\* torch.cat of a list of 2-d tensors along dim 0
Cat(ss) == IF ss = <<>> THEN <<>> ELSE Head(ss) \o Cat(Tail(ss))

\* deque(maxlen=n).append(x): a full deque drops its first element
DequeAppend(buf, x, maxlen) ==
  IF Len(buf) >= maxlen THEN Tail(buf) \o <<x>> ELSE Append(buf, x)

\* a mean taken over num_steps rows, whatever the deque holds
MeanGE_OverSteps(buf, t) == Sum(buf) >= t * num_steps

\* (sum(buffer) / len(buffer)) >= t and < t, for a non-empty buffer
MeanGE(buf, t) == Sum(buf) >= t * Len(buf)
MeanLT(buf, t) == Sum(buf) < t * Len(buf)

\* d[k] = v on a dict kept as a sequence of <<key, value>> in insertion order
DictSet(d, k, v) ==
  IF \E n \in 1..Len(d) : d[n][1] = k
  THEN [n \in 1..Len(d) |-> IF d[n][1] = k THEN <<k, v>> ELSE d[n]]
  ELSE Append(d, <<k, v>>)

\* a dict with string keys: {} and d[k] = v
EmptyDict == [k \in {} |-> 0]
DictPut(d, k, v) == [x \in (DOMAIN d) \cup {k} |-> IF x = k THEN v ELSE d[x]]

\* a split that hands the pieces out in reverse order
Split_Reversed(n, size) ==
  [p \in 1..((n + size - 1) \div size) |->
     [k \in 1..size |-> n - p * size + k]]

\* torch.split(t, size): consecutive pieces of `size` rows, given as row indices
Split(n, size) ==
  [p \in 1..((n + size - 1) \div size) |->
     [k \in 1..Min(size, n - (p - 1) * size) |-> (p - 1) * size + k]]

\* what run_function can return for n rows: the speech probability of each row
ModelOut(n) ==
  IF model.kind = "const" THEN {[k \in 1..n |-> model.v]}
  ELSE IF model.kind = "loud" THEN [1..n -> LoudProbs]
  ELSE [1..n -> Probs]

\* read_audio(name): the samples of the file
read_audio(name) == [k \in 1..wav_len[name] |-> <<name, k>>]

----------------------------------------------------------------------------
(* class VADiterator *)

VADiterator ==
  [prev |-> Zeros(num_samples), last |-> FALSE, triggered |-> FALSE,
   buffer |-> <<>>, num_frames |-> 0, current_name |-> ""]

refresh(self) ==
  [self EXCEPT !.prev = Zeros(num_samples), !.last = FALSE, !.triggered = FALSE,
               !.buffer = <<>>, !.num_frames = 0]

\* a name check that takes the new name and keeps the state of the stream before
NameCheck_NoRefresh(self, name) ==
  IF name # None /\ name # self.current_name
  THEN [self EXCEPT !.current_name = name]
  ELSE self

\* the name check of prepare_batch
NameCheck(self, name) ==
  IF name # None /\ name # self.current_name
  THEN [refresh(self) EXCEPT !.current_name = name]
  ELSE self

\* sub-windows taken from offset 0 on, the last one a step short of the new window
OverlapChunks_FromZero(stacked) ==
  LET starts == Range(0, num_samples, step)
  IN [k \in 1..Len(starts) |-> Slice(stacked, starts[k], starts[k] + num_samples)]

\* the overlapping sub-windows of prepare_batch
OverlapChunks(stacked) ==
  LET starts == Range(step, num_samples + 1, step)
  IN [k \in 1..Len(starts) |-> Slice(stacked, starts[k], starts[k] + num_samples)]

prepare_batch(self, wav_chunk, name) ==
  LET s1 == NameCheck(self, name)
      s2 == [s1 EXCEPT !.num_frames = @ + Len(wav_chunk)]
      short == Len(wav_chunk) < num_samples
      chunk == IF short THEN Pad(wav_chunk, num_samples) ELSE wav_chunk
      s3 == IF short THEN [s2 EXCEPT !.last = TRUE] ELSE s2
      stacked == s3.prev \o chunk
  IN [self |-> [s3 EXCEPT !.prev = chunk], out |-> OverlapChunks(stacked)]

\* one pass of the loop of state() for row i (0-based)
StateStep(st, predict, i) ==
  LET self == st.self
      buf == DequeAppend(self.buffer, predict, num_steps)
      off == self.num_frames - (num_steps - i) * step
      up == MeanGE(buf, trig_sum) /\ ~self.triggered
      t1 == IF up THEN TRUE ELSE self.triggered
      d1 == IF up THEN DictSet(st.current_speech, off, "start") ELSE st.current_speech
      down == MeanLT(buf, neg_trig_sum) /\ t1
      t2 == IF down THEN FALSE ELSE t1
      d2 == IF down THEN DictSet(d1, off, "end") ELSE d1
  IN [self |-> [self EXCEPT !.buffer = buf, !.triggered = t2], current_speech |-> d2]

RECURSIVE StateLoop(_, _, _)
StateLoop(st, probs, i) ==
  IF i >= Len(probs) THEN st
  ELSE StateLoop(StateStep(st, probs[i + 1], i), probs, i + 1)

\* the end of state(): the final 'end' edge and the reset, both only when self.last
StateFlush(st) ==
  LET self == st.self
      d == IF self.triggered /\ self.last
           THEN DictSet(st.current_speech, self.num_frames, "end")
           ELSE st.current_speech
  IN [self |-> IF self.last THEN refresh(self) ELSE self,
      current_speech |-> d,
      name |-> self.current_name,
      loop_triggered |-> self.triggered]   \* observer: triggered when the loop ended

state(self, model_out) ==
  StateFlush(StateLoop([self |-> self, current_speech |-> <<>>], model_out, 0))

----------------------------------------------------------------------------
(* stream_imitator *)

\* the list [(wav[i:i+num_samples], name) for i in range(0, len(wav), num_samples)];
\* qi (the place of the file in the queue) and ci (the place of the chunk) are
\* observer tags
ChunkList(name, qi) ==
  LET wav == read_audio(name)
      starts == Range(0, Len(wav), num_samples)
  IN [k \in 1..Len(starts) |->
        [out |-> Slice(wav, starts[k], starts[k] + num_samples),
         wav_name |-> name, qi |-> qi, ci |-> k]]

\* iter(list) and itertools.repeat
ListIter(name, qi) == [kind |-> "list", wav_name |-> name, qi |-> qi, pos |-> 0]
RepeatIter == [kind |-> "repeat", wav_name |-> JunkName, qi |-> 0, pos |-> 0]

Items(it) == ChunkList(it.wav_name, it.qi)
HasNext(it) == it.kind = "repeat" \/ it.pos < Len(Items(it))
NextItem(it) ==
  IF it.kind = "repeat"
  THEN [out |-> Zeros(num_samples), wav_name |-> JunkName, qi |-> 0, ci |-> 0]
  ELSE Items(it)[it.pos + 1]
Advance(it) == IF it.kind = "repeat" THEN it ELSE [it EXCEPT !.pos = @ + 1]

\* a slot that turns to filler without the return of line 258
ToFiller_NoReturn(st, i, pos) ==
  [st EXCEPT !.audio_pos = pos, !.good_iters = @ - 1, !.iterators[i] = RepeatIter,
             !.values = Append(@, NextItem(RepeatIter))]

\* lines 253-258: the slot turns to filler; the generator returns when no good
\* iterator is left
ToFiller(st, i, pos) ==
  LET g == st.good_iters - 1
      s == [st EXCEPT !.audio_pos = pos, !.good_iters = g, !.iterators[i] = RepeatIter]
  IN IF g = 0
     THEN [s EXCEPT !.returned = TRUE]
     ELSE [s EXCEPT !.values = Append(@, NextItem(RepeatIter))]

\* lines 244-259 for slot i
SlotNext(st, i) ==
  LET it == st.iterators[i] IN
  IF HasNext(it)
  THEN [st EXCEPT !.iterators[i] = Advance(it), !.values = Append(@, NextItem(it))]
  ELSE IF st.audio_pos >= Len(audios)
  THEN ToFiller(st, i, st.audio_pos)            \* next(audio_iter) raises StopIteration
  ELSE LET nit == ListIter(audios[st.audio_pos + 1], st.audio_pos + 1) IN
       IF HasNext(nit)
       THEN [st EXCEPT !.audio_pos = @ + 1, !.iterators[i] = Advance(nit),
                       !.values = Append(@, NextItem(nit))]
       ELSE ToFiller(st, i, st.audio_pos + 1)   \* next(iterators[i]) raises StopIteration

RECURSIVE RoundLoop(_, _)
RoundLoop(st, i) ==
  IF i > Len(st.iterators) \/ st.returned THEN st
  ELSE RoundLoop(SlotNext(st, i), i + 1)

\* lines 230-240; next(audio_iter) on an exhausted queue raises StopIteration inside
\* the generator, which reaches the caller as a RuntimeError (PEP 479)
InitialLoad ==
  /\ mode \in {"stream", "imitator"} /\ sgPc = "next" /\ imPc = "start"
  /\ IF Len(audios) < audios_in_stream
     THEN /\ iterators' = [i \in 1..Len(audios) |-> ListIter(audios[i], i)]
          /\ audio_pos' = Len(audios)
          /\ imPc' = "error"
          /\ sgPc' = "error"
          /\ UNCHANGED good_iters
     ELSE /\ iterators' = [i \in 1..audios_in_stream |-> ListIter(audios[i], i)]
          /\ audio_pos' = audios_in_stream
          /\ good_iters' = audios_in_stream
          /\ imPc' = "loop"
          /\ UNCHANGED sgPc
  /\ UNCHANGED <<config, numbers, chunker, gst, values, VADiters, for_batch, batch, outs, vad_outs, cur,
                 states, emitted, round_start, fed_rows, last_edge, fresh, last_off,
                 solo, quiet>>

\* the observer's note of the last edge each slot has emitted so far
LastEdgeAfter(j) ==
  IF j <= Len(cur) /\ cur[j].current_speech # <<>>
  THEN cur[j].current_speech[Len(cur[j].current_speech)][2]
  ELSE last_edge[j]

\* the observer's note of the offset of the last edge of the slot's stream
LastOffAfter(j) ==
  IF j <= Len(cur) /\ cur[j].current_speech # <<>>
  THEN cur[j].current_speech[Len(cur[j].current_speech)][1]
  ELSE last_off[j]

\* lines 275-285 of single_audio_stream for the window slot j holds in this
\* round, on the detector of line 272 as the windows before left it, with the
\* rows the classifier gave for this window
SoloStep(j) ==
  LET p == prepare_batch(solo[j], values[j].out, None)
      st == state(p.self, [k \in 1..Len(vad_outs[j]) |-> outs[vad_outs[j][k]]])
  IN [self |-> st.self, batch |-> p.out, current_speech |-> st.current_speech]

\* one pass of the while loop, lines 241-260, resumed by the consumer's for loop
\* (state_generator's, whose locals of the round that ended are dead and are
\* cleared here)
ImitatorRound ==
  /\ mode \in {"stream", "imitator"}
  /\ sgPc \in {"next", "yield"} /\ imPc \in {"loop", "suspended"}
  /\ \E r \in {RoundLoop([iterators |-> iterators, audio_pos |-> audio_pos,
                          good_iters |-> good_iters, values |-> <<>>,
                          returned |-> FALSE], 1)} :
        /\ iterators' = r.iterators
        /\ audio_pos' = r.audio_pos
        /\ good_iters' = r.good_iters
        /\ values' = r.values
        /\ solo' = [j \in DOMAIN VADiters |->
                      IF j <= Len(r.values) /\ r.values[j].qi > 0 /\ r.values[j].ci > 1
                      THEN SoloStep(j).self ELSE VADiterator]
        /\ IF r.returned
           THEN /\ imPc' = "done" /\ sgPc' = "done"
                /\ UNCHANGED emitted
           ELSE /\ imPc' = "suspended"
                /\ sgPc' = IF mode = "stream" THEN "prepare" ELSE "next"
                /\ emitted' = emitted (+)
                     SetToBag({<<r.values[k].qi, r.values[k].ci>> :
                                 k \in {n \in 1..Len(r.values) : r.values[n].qi > 0}})
  /\ round_start' = VADiters
  /\ for_batch' = <<>> /\ batch' = <<>> /\ outs' = <<>> /\ vad_outs' = <<>>
  /\ cur' = <<>> /\ states' = <<>>
  /\ fed_rows' = [j \in DOMAIN VADiters |-> <<>>]
  /\ last_edge' = [j \in DOMAIN VADiters |-> LastEdgeAfter(j)]
  /\ UNCHANGED <<config, numbers, chunker, gst, VADiters, fresh, quiet, last_off>>

----------------------------------------------------------------------------
(* state_generator *)

\* whether the window in values[j] is the first one of its stream: the first chunk
\* of a file, or the first filler window of the slot
IsFirstWindow(j) ==
  \/ values[j].ci = 1
  \/ values[j].qi = 0 /\ VADiters[j].current_name # JunkName

\* a list comprehension that stops after its first element
AllPrepared_First(n) == n >= 1

\* line 213: the list comprehension ends when zip(VADiters, current_pieces) does
AllPrepared(n) == n = audios_in_stream

\* line 213, for slot j: x.prepare_batch(*y)
PrepareBatch ==
  /\ mode = "stream" /\ sgPc = "prepare"
  /\ \E j \in {Len(for_batch) + 1} :
     \E r \in {prepare_batch(VADiters[j], values[j].out, values[j].wav_name)} :
        /\ VADiters' = [VADiters EXCEPT ![j] = r.self]
        /\ for_batch' = Append(for_batch, r.out)
        /\ sgPc' = IF AllPrepared(j) THEN "run" ELSE "prepare"
        /\ fresh' = [fresh EXCEPT ![j] =
                       IF IsFirstWindow(j)
                       THEN NameCheck(VADiters[j], values[j].wav_name)
                              = [VADiterator EXCEPT !.current_name = values[j].wav_name]
                       ELSE @]
  /\ UNCHANGED <<config, numbers, chunker, gst, imitator, batch, outs, vad_outs, cur, states, emitted,
                 round_start, fed_rows, last_edge, last_off, solo, quiet>>

\* the rows of the response that slot j's state() receives
SlotRows(o, pieces, j) == [k \in 1..Len(pieces[j]) |-> o[pieces[j][k]]]

\* the cur_st of the slots, lines 220-221
CurStates(o, pieces) ==
  [j \in 1..Min(Len(VADiters), Len(pieces)) |-> state(VADiters[j], SlotRows(o, pieces, j))]

\* lines 219-223: the slots with a non-empty cur_st[0], in slot order
RECURSIVE NonEmpty(_)
NonEmpty(cs) ==
  IF cs = <<>> THEN <<>>
  ELSE (IF Head(cs).current_speech # <<>>
        THEN << <<Head(cs).current_speech, Head(cs).name>> >> ELSE <<>>)
       \o NonEmpty(Tail(cs))

\* lines 214-223 when run_function returns one row per sub-window: the batch, the
\* call, the split and the state() of every slot
RunFunction ==
  /\ mode = "stream" /\ sgPc = "run"
  /\ batch' = Cat(for_batch)
  /\ \E o \in ModelOut(Len(Cat(for_batch))) :
       \E pieces \in {Split(Len(o), num_steps)} :
       \E cs \in {CurStates(o, pieces)} :
          /\ outs' = o
          /\ vad_outs' = pieces
          /\ cur' = [j \in 1..Len(cs) |->
                       [current_speech |-> cs[j].current_speech, name |-> cs[j].name,
                        loop_triggered |-> cs[j].loop_triggered]]
          /\ VADiters' = [j \in 1..Len(VADiters) |->
                            IF j <= Len(cs) THEN cs[j].self ELSE VADiters[j]]
          /\ fed_rows' = [j \in 1..Len(VADiters) |->
                            IF j <= Len(cs) THEN pieces[j] ELSE <<>>]
          /\ states' = NonEmpty(cs)
          /\ quiet' = [j \in 1..Len(VADiters) |->
                         IF j <= Len(cs) /\ values[j].qi = 0
                         THEN /\ (round_start[j].current_name = JunkName => quiet[j])
                              /\ \A k \in 1..Len(pieces[j]) : o[pieces[j][k]] < trig_sum
                         ELSE TRUE]
  /\ sgPc' = "yield"
  /\ UNCHANGED <<config, numbers, chunker, gst, imitator, for_batch, emitted, round_start,
                 last_edge, fresh, last_off, solo>>

\* lines 214-216 when run_function raises: the exception leaves state_generator
RunFunctionFails ==
  /\ mode = "stream" /\ sgPc = "run"
  /\ batch' = Cat(for_batch)
  /\ sgPc' = "failed"
  /\ UNCHANGED <<config, numbers, chunker, gst, imitator, VADiters, for_batch, outs, vad_outs, cur, states,
                 emitted, round_start, fed_rows, last_edge, fresh, last_off, solo, quiet>>

----------------------------------------------------------------------------
(* single_audio_stream; wav_chunks is kept in iterators[1], VADiter in VADiters[1],
   chunk and the locals of the round in values, for_batch, batch, outs, cur, states *)

\* lines 271-274
SingleLoad ==
  /\ mode = "single" /\ sgPc = "next" /\ imPc = "start"
  /\ iterators' = <<ListIter(audios[1], 1)>>
  /\ imPc' = "loop"
  /\ UNCHANGED <<config, numbers, chunker, gst, generator, audio_pos, good_iters, values>>

\* lines 275-285: one pass of the for loop, up to the yield
SingleRound ==
  /\ mode = "single" /\ sgPc \in {"next", "yield"} /\ imPc = "loop"
  /\ HasNext(iterators[1])
  /\ \E chunk \in {NextItem(iterators[1])} :
     \E p \in {prepare_batch(VADiters[1], chunk.out, None)} :
     \E o \in ModelOut(Len(p.out)) :
     \E st \in {state(p.self, o)} :
        /\ iterators' = <<Advance(iterators[1])>>
        /\ values' = <<chunk>>
        /\ for_batch' = <<p.out>>
        /\ batch' = p.out
        /\ outs' = o
        /\ vad_outs' = <<[k \in 1..Len(o) |-> k]>>
        /\ cur' = <<[current_speech |-> st.current_speech, name |-> st.name,
                     loop_triggered |-> st.loop_triggered]>>
        /\ states' = IF st.current_speech # <<>> THEN <<st.current_speech>> ELSE <<>>
        /\ VADiters' = <<st.self>>
  /\ round_start' = VADiters
  /\ last_off' = <<LastOffAfter(1)>>
  /\ sgPc' = "yield"
  /\ UNCHANGED <<config, numbers, chunker, gst, audio_pos, good_iters, imPc, emitted,
                 fed_rows, last_edge, fresh, solo, quiet>>

\* lines 275-278 when run_function raises: the exception leaves the generator
SingleRoundFails ==
  /\ mode = "single" /\ sgPc \in {"next", "yield"} /\ imPc = "loop"
  /\ HasNext(iterators[1])
  /\ \E chunk \in {NextItem(iterators[1])} :
     \E p \in {prepare_batch(VADiters[1], chunk.out, None)} :
        /\ iterators' = <<Advance(iterators[1])>>
        /\ values' = <<chunk>>
        /\ for_batch' = <<p.out>>
        /\ batch' = p.out
        /\ VADiters' = <<p.self>>
  /\ round_start' = VADiters
  /\ outs' = <<>> /\ vad_outs' = <<>> /\ cur' = <<>> /\ states' = <<>>
  /\ sgPc' = "failed"
  /\ UNCHANGED <<config, numbers, chunker, gst, audio_pos, good_iters, imPc, emitted,
                 fed_rows, last_edge, fresh, solo, quiet, last_off>>

\* line 275 when wav_chunks is exhausted: the generator returns
SingleEnd ==
  /\ mode = "single" /\ sgPc \in {"next", "yield"} /\ imPc = "loop"
  /\ ~HasNext(iterators[1])
  /\ sgPc' = "done" /\ imPc' = "done"
  /\ UNCHANGED <<config, numbers, chunker, gst, audio_pos, iterators, good_iters, values,
                 VADiters, for_batch, batch, outs, vad_outs, cur, states,
                 emitted, round_start, fed_rows, last_edge, fresh, last_off, solo, quiet>>

----------------------------------------------------------------------------
(* get_speech_ts *)

\* what run_function can return for the windows of get_speech_ts; a classifier
\* of kind "band" answers model.v for the windows that start in model.from ..
\* model.to and model.low for the others
GstModelOut(chunks) ==
  IF model.kind = "band"
  THEN {[k \in 1..Len(chunks) |->
           IF chunks[k].at >= model.from /\ chunks[k].at <= model.to
           THEN model.v ELSE model.low]}
  ELSE ModelOut(Len(chunks))

\* lines 67-76: one pass of the first loop; a full to_concat is sent to run_function
GstChunk ==
  /\ mode = "batch" /\ gsPc = "chunks"
  /\ chunk_i < Len(Range(0, wav_size, step))
  /\ \E i \in {Range(0, wav_size, step)[chunk_i + 1]} :
     \E chunk \in {[at |-> i, len |-> Min(i + num_samples, wav_size) - i]} :
       /\ chunk_i' = chunk_i + 1
       /\ IF Len(to_concat) + 1 >= batch_size
          THEN /\ \E out \in GstModelOut(Append(to_concat, chunk)) :
                    speech_probs' = speech_probs \o out
               /\ to_concat' = <<>>
          ELSE /\ to_concat' = Append(to_concat, chunk)
               /\ UNCHANGED speech_probs
  /\ UNCHANGED <<config, numbers, chunker, imitator, generator, wav_size, batch_size, speech_i, buffer,
                 triggered, current_speech, speeches, gsPc, edges>>

\* lines 78-90: the rest of to_concat is sent, and torch.cat joins the answers; it
\* raises on an empty list, which is the case of an empty wav
GstCat ==
  /\ mode = "batch" /\ gsPc = "chunks"
  /\ chunk_i >= Len(Range(0, wav_size, step))
  /\ IF to_concat # <<>>
     THEN \E out \in GstModelOut(to_concat) : speech_probs' = speech_probs \o out
     ELSE UNCHANGED speech_probs
  /\ to_concat' = <<>>
  /\ gsPc' = IF wav_size = 0 THEN "error" ELSE "loop"
  /\ UNCHANGED <<config, numbers, chunker, imitator, generator, wav_size, batch_size, chunk_i, speech_i,
                 buffer, triggered, current_speech, speeches, edges>>

\* a filter that keeps a segment of exactly 10000 samples
LongEnough_Inclusive(d) == (d["end"] - d["start"]) >= MinSpeechSamples

\* line 98: the minimum-length filter
LongEnough(d) == (d["end"] - d["start"]) > MinSpeechSamples

\* lines 92-101: the body of the edge loop for row i with probability predict
GstBody(st, predict, i) ==
  LET buf == DequeAppend(st.buffer, predict, num_steps)
      up == MeanGE(buf, trig_sum) /\ ~st.triggered
      t1 == IF up THEN TRUE ELSE st.triggered
      d1 == IF up THEN DictPut(st.current_speech, "start", step * Max(0, i - num_steps))
            ELSE st.current_speech
      e1 == IF up THEN Append(st.edges, [kind |-> "start", i |-> i, at |-> d1["start"]])
            ELSE st.edges
      down == MeanLT(buf, neg_trig_sum) /\ t1
      d2 == IF down THEN DictPut(d1, "end", step * i) ELSE d1
      keep == down /\ LongEnough(d2)
  IN [buffer |-> buf,
      triggered |-> IF down THEN FALSE ELSE t1,
      current_speech |-> IF down THEN EmptyDict ELSE d2,
      speeches |-> IF keep THEN Append(st.speeches, d2) ELSE st.speeches,
      edges |-> IF down THEN Append(e1, [kind |-> "end", i |-> i, at |-> d2["end"]])
                ELSE e1]

\* lines 91-101: one pass of the edge loop
GstStep ==
  /\ mode = "batch" /\ gsPc = "loop"
  /\ speech_i < Len(speech_probs)
  /\ \E r \in {GstBody([buffer |-> buffer, triggered |-> triggered,
                        current_speech |-> current_speech, speeches |-> speeches,
                        edges |-> edges],
                       speech_probs[speech_i + 1], speech_i)} :
       /\ buffer' = r.buffer
       /\ triggered' = r.triggered
       /\ current_speech' = r.current_speech
       /\ speeches' = r.speeches
       /\ edges' = r.edges
  /\ speech_i' = speech_i + 1
  /\ UNCHANGED <<config, numbers, chunker, imitator, generator, wav_size, batch_size, chunk_i, to_concat,
                 speech_probs, gsPc>>

\* lines 102-105: the open segment is closed at len(wav) and kept
Trailing(d) == IF d # EmptyDict THEN <<DictPut(d, "end", wav_size)>> ELSE <<>>

GstFinish ==
  /\ mode = "batch" /\ gsPc = "loop"
  /\ speech_i >= Len(speech_probs)
  /\ speeches' = speeches \o Trailing(current_speech)
  /\ current_speech' = IF current_speech # EmptyDict
                       THEN DictPut(current_speech, "end", wav_size) ELSE current_speech
  /\ gsPc' = "done"
  /\ UNCHANGED <<config, numbers, chunker, imitator, generator, wav_size, batch_size, chunk_i, to_concat,
                 speech_probs, speech_i, buffer, triggered, edges>>

----------------------------------------------------------------------------
(* collect_chunks and drop_chunks *)

\* wav[lo:hi] for each segment, lines 291-292
CollectList(t, wav) == [k \in 1..Len(t) |-> Slice(wav, t[k].start, t[k].end)]

\* lines 299-302: the span before each segment; cur_start is the end of the one before
DropList(t, wav) ==
  [k \in 1..Len(t) |->
     Slice(wav, IF k = 1 THEN 0 ELSE t[k - 1].end, t[k].start)]

\* collect_chunks(tss, wav); torch.cat raises on an empty list
CollectChunks ==
  /\ mode = "chunks" /\ ccPc = "collect"
  /\ IF tss = <<>>
     THEN ccPc' = "error" /\ UNCHANGED collected
     ELSE ccPc' = "drop" /\ collected' = Cat(CollectList(tss, chunks_wav))
  /\ UNCHANGED <<config, imitator, generator, gst, numbers, tss, chunks_wav, dropped>>

\* drop_chunks(tss, wav)
DropChunks ==
  /\ mode = "chunks" /\ ccPc = "drop"
  /\ IF tss = <<>>
     THEN ccPc' = "error" /\ UNCHANGED dropped
     ELSE ccPc' = "done" /\ dropped' = Cat(DropList(tss, chunks_wav))
  /\ UNCHANGED <<config, imitator, generator, gst, numbers, tss, chunks_wav, collected>>

----------------------------------------------------------------------------
(* get_number_ts *)

\* int(x / (sample_rate / 1000)) for x >= 0
ToMs(x, sample_rate) == (x * 1000) \div sample_rate

\* torch.unsqueeze(t, dim=0) on a shape, and len() of a tensor of that shape
Unsqueeze(shape) == <<1>> \o shape
TensorLen(shape) == shape[1]

RECURSIVE Extend(_, _)
\* lines 117-119: every prediction repeated model_stride times
Extend(preds, model_stride) ==
  IF preds = <<>> THEN <<>>
  ELSE [k \in 1..model_stride |-> Head(preds)] \o Extend(Tail(preds), model_stride)

ModelStride == 8
HopLength == 160
SampleRate == 16000

\* lines 114-123: the classifier answers with one class per strided frame; for a
\* single frame squeeze() leaves a 0-d tensor, and the for loop over it raises
NumberRun ==
  /\ mode = "number" /\ gnPc = "run"
  /\ number_wav' = Unsqueeze(number_wav)
  /\ \E n \in 0..MaxFrames : \E preds \in [1..n -> {0, 1, 2}] :
       /\ perframe_preds' = preds
       /\ extended_preds' = IF n = 1 THEN <<>> ELSE Extend(preds, ModelStride)
       /\ gnPc' = IF n = 1 THEN "error" ELSE "loop"
  /\ UNCHANGED <<config, imitator, generator, gst, chunker, number_i, number_triggered,
                 cur_timing, timings>>

\* lines 124-134: one pass of the loop
NumberStep ==
  /\ mode = "number" /\ gnPc = "loop"
  /\ number_i < Len(extended_preds)
  /\ \E i \in {number_i} : \E pred \in {extended_preds[number_i + 1]} :
       IF pred = 1 /\ ~number_triggered
       THEN /\ cur_timing' = DictPut(cur_timing, "start", ToMs(i * HopLength, SampleRate))
            /\ number_triggered' = TRUE
            /\ UNCHANGED timings
       ELSE IF pred = 0 /\ number_triggered
       THEN /\ timings' = Append(timings,
                            DictPut(cur_timing, "end", ToMs(i * HopLength, SampleRate)))
            /\ cur_timing' = EmptyDict
            /\ number_triggered' = FALSE
       ELSE UNCHANGED <<cur_timing, number_triggered, timings>>
  /\ number_i' = number_i + 1
  /\ UNCHANGED <<config, imitator, generator, gst, chunker, number_wav, perframe_preds,
                 extended_preds, gnPc>>

\* lines 135-138: the open region is closed at int(len(wav) / (sample_rate / 1000))
NumberFinish ==
  /\ mode = "number" /\ gnPc = "loop"
  /\ number_i >= Len(extended_preds)
  /\ IF cur_timing # EmptyDict
     THEN \E d \in {DictPut(cur_timing, "end", ToMs(TensorLen(number_wav), SampleRate))} :
            /\ cur_timing' = d
            /\ timings' = Append(timings, d)
     ELSE UNCHANGED <<cur_timing, timings>>
  /\ gnPc' = "done"
  /\ UNCHANGED <<config, imitator, generator, gst, chunker, number_wav, perframe_preds,
                 extended_preds, number_i, number_triggered>>

----------------------------------------------------------------------------

\* the classifiers tried: one free to answer anything, and the constant ones
Models == {[kind |-> "any", v |-> 0]} \cup {[kind |-> "const", v |-> p] : p \in Probs}

\* the classifiers tried for get_speech_ts
GstModels == Models \cup {[kind |-> "loud", v |-> 0]}

\* classifiers that report speech for the windows at samples 4000 to 14000 of the
\* signal: the windows that start there, the ones that lie there, the ones that
\* reach into it
BandModels ==
  {[kind |-> "band", v |-> h, low |-> l, from |-> a, to |-> b] :
     h \in {26, 30, 100}, l \in {0, 5}, a \in {500, 4000}, b \in {10000, 13500, 14000}}

\* the state before the first instruction of stream_imitator
InitImitatorVars ==
  /\ audios \in UNION {[1..n -> Names] : n \in 0..MaxQueue}
  \* file names are labels compared for equality only: one queue stands for the
  \* queues that differ from it by a renaming, and a file that is not queued is
  \* never read
  /\ audios # <<>> => audios[1] = "a"
  /\ wav_len \in [Names -> 0..MaxLen]
  /\ \A n \in Names : n \notin {audios[k] : k \in 1..Len(audios)} => wav_len[n] = 0
  /\ audios_in_stream \in StreamCounts
  /\ \E sh \in Shapes :
       /\ num_steps = sh.num_steps
       /\ step = sh.step
       /\ num_samples = sh.num_steps * sh.step
  /\ audio_pos = 0
  /\ iterators = <<>>
  /\ good_iters = 0
  /\ values = <<>>
  /\ imPc = "start"
  /\ emitted = EmptyBag

NoRound ==
  /\ for_batch = <<>> /\ batch = <<>> /\ outs = <<>> /\ vad_outs = <<>>
  /\ cur = <<>> /\ states = <<>>

\* get_speech_ts does not run
NoGst ==
  /\ wav_size = 0 /\ batch_size = 0 /\ chunk_i = 0 /\ to_concat = <<>>
  /\ speech_probs = <<>> /\ speech_i = 0 /\ buffer = <<>> /\ triggered = FALSE
  /\ current_speech = EmptyDict /\ speeches = <<>> /\ gsPc = "off" /\ edges = <<>>

\* get_number_ts does not run
NoNumber ==
  /\ number_wav = <<>> /\ perframe_preds = <<>> /\ extended_preds = <<>>
  /\ number_i = 0 /\ number_triggered = FALSE /\ cur_timing = EmptyDict
  /\ timings = <<>> /\ gnPc = "off"

\* collect_chunks and drop_chunks do not run
NoChunker ==
  /\ tss = <<>> /\ chunks_wav = <<>> /\ collected = <<>> /\ dropped = <<>>
  /\ ccPc = "off"

\* state_generator and stream_imitator do not run
NoStream ==
  /\ audios = <<>> /\ wav_len = [n \in Names |-> 0] /\ audios_in_stream = 0
  /\ audio_pos = 0 /\ iterators = <<>> /\ good_iters = 0 /\ values = <<>>
  /\ imPc = "off" /\ emitted = EmptyBag
  /\ VADiters = <<>> /\ NoRound /\ sgPc = "off"
  /\ round_start = <<>> /\ fed_rows = <<>> /\ last_edge = <<>> /\ fresh = <<>>
  /\ last_off = <<>> /\ solo = <<>> /\ quiet = <<>>

\* state_generator(model, audios, ...), before its first instruction runs: line 211
InitStream ==
  /\ NoNumber /\ NoChunker
  /\ mode = "stream"
  /\ model \in Models
  /\ trig_sum = VadTrigSum
  /\ neg_trig_sum = VadNegTrigSum
  /\ InitImitatorVars
  /\ NoGst
  /\ VADiters = [j \in 1..audios_in_stream |-> VADiterator]
  /\ NoRound
  /\ sgPc = "next"
  /\ round_start = [j \in 1..audios_in_stream |-> VADiterator]
  /\ fed_rows = [j \in 1..audios_in_stream |-> <<>>]
  /\ last_edge = [j \in 1..audios_in_stream |-> "none"]
  /\ last_off = <<>>
  /\ solo = [j \in 1..audios_in_stream |-> VADiterator]
  /\ quiet = [j \in 1..audios_in_stream |-> TRUE]
  /\ fresh = [j \in 1..audios_in_stream |-> TRUE]

\* single_audio_stream(model, audio), before its first instruction runs
InitSingle ==
  /\ NoNumber /\ NoChunker
  /\ mode = "single"
  /\ model \in Models
  /\ trig_sum = VadTrigSum
  /\ neg_trig_sum = VadNegTrigSum
  /\ InitImitatorVars
  /\ Len(audios) = 1 /\ audios_in_stream = 1
  /\ NoGst
  /\ VADiters = <<VADiterator>>
  /\ NoRound
  /\ sgPc = "next"
  /\ round_start = <<VADiterator>>
  /\ fed_rows = <<>> /\ last_edge = <<>> /\ fresh = <<>>
  /\ last_off = <<-1>> /\ solo = <<>> /\ quiet = <<>>

\* for values in stream_imitator(audios, audios_in_stream, num_samples): no detector
InitImitator ==
  /\ NoNumber /\ NoChunker
  /\ mode = "imitator"
  /\ model = [kind |-> "any", v |-> 0]
  /\ trig_sum = VadTrigSum
  /\ neg_trig_sum = VadNegTrigSum
  /\ InitImitatorVars
  /\ NoGst
  /\ VADiters = <<>>
  /\ NoRound
  /\ sgPc = "next"
  /\ round_start = <<>> /\ fed_rows = <<>> /\ last_edge = <<>> /\ fresh = <<>>
  /\ last_off = <<>> /\ solo = <<>> /\ quiet = <<>>

\* get_speech_ts(wav, model, ...), before its first instruction runs
InitGst ==
  /\ NoNumber /\ NoChunker
  /\ mode = "batch"
  /\ model \in GstModels
  /\ trig_sum = GstTrigSum
  /\ neg_trig_sum = GstNegTrigSum
  /\ \E sh \in GstShapes :
       /\ num_steps = sh.num_steps
       /\ step = sh.step
       /\ num_samples = sh.num_steps * sh.step
       /\ wav_size \in {h * (sh.step \div 2) : h \in 0..MaxHalfSteps}
  /\ batch_size \in BatchSizes
  /\ chunk_i = 0 /\ to_concat = <<>>
  /\ speech_probs = <<>> /\ speech_i = 0 /\ buffer = <<>> /\ triggered = FALSE
  /\ current_speech = EmptyDict /\ speeches = <<>> /\ gsPc = "chunks" /\ edges = <<>>
  /\ NoStream

\* get_speech_ts(wav, model) with its defaults on a wav of 20000 samples
InitExample ==
  /\ NoNumber /\ NoChunker
  /\ mode = "batch"
  /\ model \in BandModels
  /\ trig_sum = GstTrigSum
  /\ neg_trig_sum = GstNegTrigSum
  /\ num_steps = 8 /\ num_samples = 4000 /\ step = 500
  /\ wav_size = 20000
  /\ batch_size \in BatchSizes
  /\ chunk_i = 0 /\ to_concat = <<>>
  /\ speech_probs = <<>> /\ speech_i = 0 /\ buffer = <<>> /\ triggered = FALSE
  /\ current_speech = EmptyDict /\ speeches = <<>> /\ gsPc = "chunks" /\ edges = <<>>
  /\ NoStream

\* no detector of speech runs
NoSpeech ==
  /\ model = [kind |-> "any", v |-> 0]
  /\ num_samples = 0 /\ num_steps = 0 /\ step = 0 /\ trig_sum = 0 /\ neg_trig_sum = 0
  /\ NoGst /\ NoStream

\* the lists of at most MaxSegs segments sorted by start and non-overlapping
\* within a wav of n samples: the lists get_speech_ts is meant to return
Segments(n) == {[start |-> a, end |-> b] : a, b \in 0..n}

SortedLists(n) ==
  {t \in UNION {[1..m -> Segments(n)] : m \in 0..MaxSegs} :
     /\ \A k \in 1..Len(t) : t[k].start < t[k].end
     /\ \A k \in 1..(Len(t) - 1) : t[k].end <= t[k + 1].start}

\* collect_chunks(tss, wav) then drop_chunks(tss, wav), before the first call
InitChunks ==
  /\ mode = "chunks"
  /\ NoSpeech /\ NoNumber
  /\ \E n \in 0..MaxWav :
       /\ chunks_wav = [k \in 1..n |-> k - 1]
       /\ tss \in SortedLists(n)
  /\ collected = <<>> /\ dropped = <<>>
  /\ ccPc = "collect"

\* get_number_ts(wav, model), before its first instruction runs
InitNumber ==
  /\ mode = "number"
  /\ NoSpeech /\ NoChunker
  /\ number_wav \in {<<n * HopLength * ModelStride>> : n \in 0..MaxFrames}
  /\ perframe_preds = <<>> /\ extended_preds = <<>>
  /\ number_i = 0 /\ number_triggered = FALSE /\ cur_timing = EmptyDict
  /\ timings = <<>> /\ gnPc = "run"

NextSingle ==
  \/ SingleLoad
  \/ SingleRound
  \/ SingleRoundFails
  \/ SingleEnd

NextChunks ==
  \/ CollectChunks
  \/ DropChunks

NextNumber ==
  \/ NumberRun
  \/ NumberStep
  \/ NumberFinish

NextGst ==
  \/ GstChunk
  \/ GstCat
  \/ GstStep
  \/ GstFinish

NextStream ==
  \/ InitialLoad
  \/ ImitatorRound
  \/ PrepareBatch
  \/ RunFunction
  \/ RunFunctionFails

NextImitator ==
  \/ InitialLoad
  \/ ImitatorRound

Init == InitStream \/ InitImitator \/ InitSingle \/ InitGst \/ InitNumber \/ InitChunks
Next == NextStream \/ NextSingle \/ NextGst \/ NextNumber \/ NextChunks

Spec == Init /\ [][Next]_vars

SpecGst == InitGst /\ [][NextGst]_vars

SpecExample == InitExample /\ [][NextGst]_vars

SpecSingle == InitSingle /\ [][NextSingle]_vars

SpecNumber == InitNumber /\ [][NextNumber]_vars

SpecChunks == InitChunks /\ [][NextChunks]_vars

SpecStream == InitStream /\ [][NextStream]_vars

\* the consumer's for loop keeps pulling rounds while the generator has any
SpecImitator == InitImitator /\ [][NextImitator]_vars /\ WF_vars(NextImitator)
----------------------------------------------------------------------------
(* Vocabulary of the claims *)

Slots == 1..audios_in_stream

\* the chunks of the file at place qi of the queue
NumChunks(qi) == Len(ChunkList(audios[qi], qi))

\* the window slot j processes in this round is the last one of its file
IsLastWindow(j) == values[j].qi > 0 /\ values[j].ci = NumChunks(values[j].qi)

\* the kinds of the edges of a current_speech dict, in emission order
Kinds(d) == [k \in 1..Len(d) |-> d[k][2]]

\* a round has been handed to state_generator and every slot's state() has run
RoundDone == mode = "stream" /\ sgPc = "yield"

ResetDetector(name) == [VADiterator EXCEPT !.current_name = name]

----------------------------------------------------------------------------
(* C1 *)

\* C1: in streaming mode, when the detector is still triggered after the last
\* window of a signal has been processed, state() emits a final 'end' edge at the
\* end of the signal and the detector is reset before the slot processes any other
\* stream.
C1_FinalEndAndReset ==
  /\ RoundDone =>
       \A j \in Slots :
         (IsLastWindow(j) /\ cur[j].loop_triggered) =>
           /\ cur[j].current_speech # <<>>
           /\ cur[j].current_speech[Len(cur[j].current_speech)][2] = "end"
           /\ VADiters[j] = ResetDetector(values[j].wav_name)
  /\ mode = "stream" => \A j \in Slots : fresh[j]

----------------------------------------------------------------------------
(* C2 *)

\* the edges e follow the last edge `before` in strict alternation, a 'start' first
Alternates(before, e) ==
  \A k \in 1..Len(e) :
    LET p == IF k = 1 THEN before ELSE e[k - 1]
    IN IF e[k] = "start" THEN p \in {"none", "end"} ELSE p = "start"

\* C2: over the whole life of one detector the emitted edges strictly alternate:
\* the first edge is a 'start', and no two 'start' or two 'end' edges follow each
\* other.
C2_StrictAlternation ==
  RoundDone => \A j \in Slots : Alternates(last_edge[j], Kinds(cur[j].current_speech))

----------------------------------------------------------------------------
(* C3 *)

\* C3: when stream_imitator returns, every window of every queued signal has been
\* yielded exactly once.
C3_AllConsumed ==
  imPc = "done" =>
    \A qi \in 1..Len(audios) : \A ci \in 1..NumChunks(qi) :
      CopiesIn(<<qi, ci>>, emitted) = 1

----------------------------------------------------------------------------
(* C4 *)

AllFiller == \A j \in 1..Len(iterators) : iterators[j].kind = "repeat"

\* the generator has ended: it returned, or an exception left it
Terminated == imPc \in {"done", "error"}

----------------------------------------------------------------------------
(* C5 *)

\* C5: the first window of every signal loaded into a slot, and the first filler
\* window of a slot, is processed from a fully reset detector: prev all-zero, FIFO
\* empty, triggered false, last false, frame counter 0.
C5_FirstWindowFromReset ==
  (mode = "stream" /\ sgPc \in {"prepare", "run"}) =>
    \A j \in 1..Len(for_batch) :
      /\ fresh[j]
      /\ values[j].ci = 1 =>
           /\ VADiters[j] = prepare_batch(ResetDetector(values[j].wav_name),
                                          values[j].out, values[j].wav_name).self
           /\ for_batch[j] = prepare_batch(ResetDetector(values[j].wav_name),
                                           values[j].out, values[j].wav_name).out

----------------------------------------------------------------------------
(* C6 *)

\* C6: whenever a slot needs a signal and the queue has none left, the initial
\* fill included, the slot is switched to filler and no exhaustion error reaches
\* the caller.
C6_NoExhaustionError ==
  imPc # "error" /\ sgPc # "error"

----------------------------------------------------------------------------
(* C7 *)

\* C7: when run_function fails in a round, no slot's state has been mutated by
\* that round.
C7_FailedRoundLeavesState ==
  (mode = "stream" /\ sgPc = "failed") => VADiters = round_start

----------------------------------------------------------------------------
(* C9 *)

\* the detector of slot j as prepare_batch left it in this round
Prepared(j) == prepare_batch(round_start[j], values[j].out, values[j].wav_name).self

\* C9: every round submits exactly K * num_steps sub-windows, slot 0's first, then
\* slot 1's, and rows [j*num_steps, (j+1)*num_steps) of the response are fed to
\* slot j's detector and to no other, filler slots included.
C9_BatchLayout ==
  RoundDone =>
    /\ Len(batch) = audios_in_stream * num_steps
    /\ Len(outs) = Len(batch)
    /\ \A j \in Slots : \A k \in 1..num_steps :
         batch[(j - 1) * num_steps + k] = for_batch[j][k]
    /\ Len(cur) = audios_in_stream
    /\ \A j \in Slots :
         /\ fed_rows[j] = [k \in 1..num_steps |-> (j - 1) * num_steps + k]
         /\ cur[j].current_speech =
              state(Prepared(j),
                    SubSeq(outs, (j - 1) * num_steps + 1, j * num_steps)).current_speech
         /\ VADiters[j] =
              state(Prepared(j),
                    SubSeq(outs, (j - 1) * num_steps + 1, j * num_steps)).self

C9_Witness ==
  /\ RoundDone /\ audios_in_stream = 2
  /\ values[1].qi = 0 /\ values[2].qi > 0
  /\ outs[1] # outs[3]
  /\ cur[2].current_speech # <<>> /\ cur[1].current_speech = <<>>

----------------------------------------------------------------------------
(* C8 *)

\* the segments an assembler makes of the edges es: a closed segment is kept when
\* it is longer than 10000 samples, an open one is closed at len(wav) and kept
RECURSIVE Assemble(_, _, _)
Assemble(es, open, acc) ==
  IF es = <<>>
  THEN IF open = <<>> THEN acc
       ELSE Append(acc, [start |-> open[1], end |-> wav_size])
  ELSE IF Head(es).kind = "start"
  THEN Assemble(Tail(es), <<Head(es).at>>, acc)
  ELSE Assemble(Tail(es), <<>>,
                IF Head(es).at - open[1] > MinSpeechSamples
                THEN Append(acc, [start |-> open[1], end |-> Head(es).at])
                ELSE acc)

\* C8: get_speech_ts returns, in order, every segment closed by an 'end' edge that
\* is longer than 10000 samples (exactly 10000 is dropped), and the segment a
\* 'start' without 'end' opens, closed at len(wav) and kept whatever its length.
C8_Segments ==
  (mode = "batch" /\ gsPc = "done") => speeches = Assemble(edges, <<>>, <<>>)

\* a run that drops a segment of exactly 10000 samples, keeps a longer one and
\* keeps the trailing one
C8_Witness ==
  /\ mode = "batch" /\ gsPc = "done"
  /\ Len(edges) = 5
  /\ edges[2].at - edges[1].at = MinSpeechSamples
  /\ edges[4].at - edges[3].at > MinSpeechSamples
  /\ speeches = << [start |-> edges[3].at, end |-> edges[4].at],
                   [start |-> edges[5].at, end |-> wav_size] >>

----------------------------------------------------------------------------
(* C10 *)

\* the window slot j processes in this round is the first one of its stream
FirstOfStream(j) ==
  IF values[j].qi > 0 THEN values[j].ci = 1
  ELSE round_start[j].current_name # JunkName

\* the edges of kind k in a current_speech dict of state()
EdgesOf(d, k) == {n \in 1..Len(d) : d[n][2] = k}

----------------------------------------------------------------------------
(* C11 *)

\* how many times sample x occurs in the sequence q
Occurrences(x, q) == Cardinality({k \in 1..Len(q) : q[k] = x})

\* C11: for a list of segments sorted by start and non-overlapping within the
\* signal, the samples collect_chunks returns together with the samples
\* drop_chunks returns are exactly the samples of the signal: every sample index
\* occurs once in one of the two results and none is missing.
C11_KeepDropCover ==
  (mode = "chunks" /\ ccPc = "done") =>
    /\ Len(collected) + Len(dropped) = Len(chunks_wav)
    /\ \A k \in 1..Len(chunks_wav) :
         Occurrences(chunks_wav[k], collected \o dropped) = 1

----------------------------------------------------------------------------
(* C16 *)

\* C16: every segment get_number_ts returns has end > start in milliseconds, the
\* trailing one included, whose end is the end of the signal.
C16_NumberSegments ==
  (mode = "number" /\ gnPc = "done") =>
    \A k \in 1..Len(timings) : timings[k]["end"] > timings[k]["start"]

----------------------------------------------------------------------------
(* C12 *)

Distance(a, b) == IF a >= b THEN a - b ELSE b - a

\* C12: get_speech_ts on 20000 samples with windows of 4000 samples, 8 steps of
\* 500 and the default thresholds, for a classifier that reports a constant high
\* probability for the windows at samples 4000 to 14000 and a probability below
\* neg_trig_sum elsewhere: exactly one segment is returned, its start within one
\* step of 4000 and its end within one step of 14000.
C12_Example ==
  (mode = "batch" /\ gsPc = "done" /\ model.kind = "band"
     /\ model.from = 4000 /\ model.to = 13500) =>
    /\ Len(speeches) = 1
    /\ Distance(speeches[1]["start"], 4000) <= step
    /\ Distance(speeches[1]["end"], 14000) <= step

----------------------------------------------------------------------------
(* C17 *)

\* C17: the list get_speech_ts returns is sorted by start and non-overlapping:
\* 0 <= s.start < s.end <= t.start < t.end <= len(wav) for consecutive s, t.
C17_SortedDisjoint ==
  (mode = "batch" /\ gsPc = "done") =>
    /\ \A k \in 1..Len(speeches) :
         /\ 0 <= speeches[k]["start"]
         /\ speeches[k]["start"] < speeches[k]["end"]
         /\ speeches[k]["end"] <= wav_size
    /\ \A k \in 1..(Len(speeches) - 1) :
         speeches[k]["end"] <= speeches[k + 1]["start"]

----------------------------------------------------------------------------
(* C13 *)

\* the detector of slot j in this round after the name check of prepare_batch
Checked(j) == NameCheck(round_start[j], values[j].wav_name)

\* the window of slot j in this round, padded to num_samples
Padded(j) == values[j].out \o [k \in 1..(num_samples - Len(values[j].out)) |-> ZeroSample]

\* C13: prepare_batch returns exactly num_steps sub-windows of num_samples
\* samples, the k-th being the slice at offset k * step of prev ++ padded(curr);
\* the last one is padded(curr), and afterwards prev = padded(curr).  prev is
\* all-zero for the first window after construction or reset.
C13_SubWindows ==
  (mode = "stream" /\ sgPc \in {"prepare", "run"}) =>
    \A j \in 1..Len(for_batch) :
      LET stacked == Checked(j).prev \o Padded(j) IN
      /\ Len(for_batch[j]) = num_steps
      /\ \A k \in 1..num_steps :
           /\ Len(for_batch[j][k]) = num_samples
           /\ for_batch[j][k] = SubSeq(stacked, k * step + 1, k * step + num_samples)
      /\ for_batch[j][num_steps] = Padded(j)
      /\ VADiters[j].prev = Padded(j)
      /\ (round_start[j] = VADiterator \/ Checked(j) = refresh(Checked(j))) =>
           \A k \in 1..num_samples : stacked[k] = ZeroSample

\* a short last window that follows a full one: the sub-windows mix the samples
\* of the window before, the new samples and the padding
C13_Witness ==
  /\ mode = "stream" /\ sgPc = "run"
  /\ \E j \in 1..Len(for_batch) :
       /\ values[j].ci = 2
       /\ Len(values[j].out) < num_samples
       /\ round_start[j].prev # Zeros(num_samples)
       /\ for_batch[j][1][1] = <<values[j].wav_name, num_samples>>

----------------------------------------------------------------------------
(* C14 *)

\* the detector of slot j has had prepare_batch in this round and nothing else
OnlyPrepared(j) ==
  VADiters[j] = prepare_batch(round_start[j], values[j].out, values[j].wav_name).self

\* while a round is assembled no state() has run in it: the slots prepared so far
\* are as prepare_batch left them and the others as the round before left them
Assembling ==
  (mode = "stream" /\ sgPc = "prepare") =>
    /\ outs = <<>> /\ vad_outs = <<>> /\ cur = <<>>
    /\ \A j \in Slots :
         IF j <= Len(for_batch) THEN OnlyPrepared(j) ELSE VADiters[j] = round_start[j]

\* the classifier is called when every slot has been prepared
AllBeforeCall ==
  (mode = "stream" /\ sgPc \in {"run", "failed"}) =>
    /\ Len(for_batch) = audios_in_stream
    /\ outs = <<>> /\ cur = <<>>
    /\ \A j \in Slots : OnlyPrepared(j)

\* a step that advances the FIFO or the triggered flag of a detector by state()
\* is the step that receives and splits the response of a fully prepared round
StateAfterSplit ==
  (\E j \in Slots : /\ VADiters'[j] # VADiters[j]
                     /\ ~(sgPc = "prepare" /\ j = Len(for_batch) + 1))
    => /\ sgPc = "run" /\ sgPc' = "yield"
       /\ Len(for_batch) = audios_in_stream
       /\ Len(outs') = audios_in_stream * num_steps
       /\ Len(vad_outs') = audios_in_stream
       /\ Len(cur') = audios_in_stream

\* C14: every round of state_generator is a barrier: prepare_batch has completed
\* for all K slots before the classifier is called, no slot's state() runs until
\* the response of the whole round has been received and split, and no state()
\* of a round runs after a prepare_batch of the next round.
C14_Barrier ==
  /\ []Assembling
  /\ []AllBeforeCall
  /\ [][mode = "stream" => StateAfterSplit]_vars

\* a second round of two live slots in which both detectors reported an edge
C14_Witness ==
  /\ RoundDone /\ audios_in_stream = 2
  /\ values[1].ci = 2 /\ values[2].qi > 0
  /\ cur[1].current_speech # <<>> /\ cur[2].current_speech # <<>>

----------------------------------------------------------------------------
(* C15 *)

\* the offsets of the edges of a current_speech dict, in emission order
Offsets(d) == [k \in 1..Len(d) |-> d[k][1]]

\* the offsets e follow the offset `before` in strictly increasing order
Increasing(before, e) ==
  \A k \in 1..Len(e) : e[k] > (IF k = 1 THEN before ELSE e[k - 1])

\* C15: in streaming mode, for one stream of any length, the sample offsets of
\* the edges state() emits over its successive calls are non-negative and
\* strictly increasing in emission order.
C15_OffsetsIncrease ==
  (mode = "single" /\ sgPc = "yield") =>
    Increasing(last_off[1], Offsets(cur[1].current_speech))

----------------------------------------------------------------------------
(* C18 *)

\* C18: with a stateless classifier, the (offset, edge) events state_generator
\* reports for a signal are the ones single_audio_stream reports for that signal
\* processed alone, whichever slot hosts it and whatever the other slots process.
C18_SameAsAlone ==
  RoundDone =>
    \A j \in Slots :
      values[j].qi > 0 => cur[j].current_speech = SoloStep(j).current_speech

----------------------------------------------------------------------------
(* C19 *)

\* slot j is in filler mode in this round
Filler(j) == values[j].qi = 0

\* the names of the entries of the yielded states
StateNames == {states[k][2] : k \in 1..Len(states)}

\* C19 as stated: in every yielded round a slot in filler mode has an empty edge
\* set, and no entry of the yielded states carries the name 'junk'.
C19_FillerNeverReports ==
  RoundDone =>
    /\ \A j \in Slots : Filler(j) => cur[j].current_speech = <<>>
    /\ JunkName \notin StateNames

\* C19 as amended: as long as the classifier has answered every sub-window of a
\* slot's filler with a probability below trig_sum, that slot's state() returns
\* an empty edge set; when that is so for every filler slot, no entry of the
\* yielded states carries the name 'junk'.
C19_QuietFillerNeverReports ==
  RoundDone =>
    /\ \A j \in Slots : (Filler(j) /\ quiet[j]) =>
         /\ cur[j].current_speech = <<>>
         /\ ~VADiters[j].triggered
    /\ (\A j \in Slots : Filler(j) => quiet[j]) => JunkName \notin StateNames

\* a slot that turned to filler after a signal that ended while speech was on,
\* the other slot reporting an edge
C19_Witness ==
  /\ RoundDone /\ audios_in_stream = 2
  /\ Filler(1) /\ quiet[1]
  /\ round_start[1].triggered /\ last_edge[1] = "start"
  /\ ~Filler(2) /\ states # <<>>

====
